---- MODULE Spec2Model ----
(***************************************************************************)
(* Model of full_sync3.py: fetch the Ilios feed, merge it into the stored  *)
(* events with composite-key dedupe, regenerate the full feed, push it to  *)
(* GitHub and mirror the stored events to two Google calendars.            *)
(*                                                                         *)
(* Text is a sequence of one-character strings, so that the composite key  *)
(* f"{summary}|{dtstart}" is a real concatenation.  A file is a record     *)
(* [exists, data].  Instants are small naturals; BadTime is a DTSTART or   *)
(* DTEND value that icalendar cannot decode (malformed or missing).        *)
(***************************************************************************)
EXTENDS Integers, Sequences, FiniteSets, TLC

\* ------------------------------------------------------------------ bounds
\* longest feed (number of components) fetched in one run
MaxFeed == 2
\* longest stored_events.json found on disk before the first run
MaxStored == 3
\* most phrases in the summary of an event to colour
MaxWords == 2

\* ------------------------------------------------------------------ inputs
Summaries == {<<"a">>, <<"b", "|">>}
Times == {0, 1}
BadTime == -1
Uids == {<<"u", "1">>, <<"u", "2">>}

\* the DESCRIPTION property a feed carries along with each uid (raw, unstripped)
RawDescription(uid) == IF uid = <<"u", "1">> THEN <<" ", "x", " ">> ELSE <<"y">>

Component(name, summary, uid, description, dtstart, dtend) ==
    [name |-> name, summary |-> summary, uid |-> uid,
     description |-> description, dtstart |-> dtstart, dtend |-> dtend]

\* well-formed events, events whose start or end cannot be decoded, and a
\* component that is not an event
GoodEvents(summaries, times, uids) ==
    {Component("VEVENT", s, u, RawDescription(u), t, t + 1) :
        s \in summaries, t \in times, u \in uids}
BadStartEvents(summaries, times) ==
    {Component("VEVENT", s, <<"u", "1">>, <<"y">>, BadTime, t + 1) :
        s \in summaries, t \in times}
BadEndEvents(summaries, times) ==
    {Component("VEVENT", s, <<"u", "1">>, <<"y">>, t, BadTime) :
        s \in summaries, t \in times}
OtherComponents == {Component("VTIMEZONE", <<>>, <<>>, <<>>, BadTime, BadTime)}

SeqsUpTo(S, n) == UNION {[1..k -> S] : k \in 0..n}

\* ------------------------------------------------------------- conversions
Digit == <<"0", "1", "2", "3", "4", "5", "6", "7", "8", "9">>

\* datetime.isoformat(): the text of a decoded instant; never contains "|"
isoformat(t) == <<"T", Digit[t + 1]>>

\* str.strip(): drop leading and trailing whitespace
Whitespace == {" ", "\n", "\t"}
RECURSIVE lstrip(_)
lstrip(s) == IF s # <<>> /\ Head(s) \in Whitespace THEN lstrip(Tail(s)) ELSE s
RECURSIVE rstrip(_)
rstrip(s) ==
    IF s # <<>> /\ s[Len(s)] \in Whitespace
    THEN rstrip(SubSeq(s, 1, Len(s) - 1)) ELSE s
strip(s) == rstrip(lstrip(s))

\* f"{summary}|{dtstart}"
CompositeKey(summary, dtstart) == summary \o <<"|">> \o dtstart

File(exists, data) == [exists |-> exists, data |-> data]

\* ------------------------------------------------ step 2: parse_and_store
\* the record json.dump writes for one event
StoredEvent(uid, summary, description, dtstart, dtend) ==
    [uid |-> uid, summary |-> summary, description |-> description,
     dtstart |-> dtstart, dtend |-> dtend]

StoredKeyUid(e) == e.uid
\* key = f"{e['summary']}|{e['dtstart']}" of a stored event
StoredKey(e) == CompositeKey(e.summary, e.dtstart)

DictSetAppends(unique, key, e) == Append(unique, [key |-> key, value |-> e])
\* unique[key] = e on a dict kept as a sequence of items in insertion order:
\* an existing key keeps its position and takes the new value
DictSet(unique, key, e) ==
    IF \E i \in DOMAIN unique : unique[i].key = key
    THEN [i \in DOMAIN unique |->
            IF unique[i].key = key THEN [key |-> key, value |-> e] ELSE unique[i]]
    ELSE Append(unique, [key |-> key, value |-> e])

\* for e in stored: unique[key] = e
RECURSIVE RemoveDuplicates(_, _)
RemoveDuplicates(stored, unique) ==
    IF stored = <<>> THEN unique
    ELSE RemoveDuplicates(Tail(stored),
                          DictSet(unique, StoredKey(Head(stored)), Head(stored)))

DictValues(unique) == [i \in DOMAIN unique |-> unique[i].value]

ExistingKeysNone(unique) == {}
\* existing_keys = set(unique.keys())
ExistingKeys(unique) == {unique[i].key : i \in DOMAIN unique}

\* comp.decoded("dtstart") and comp.decoded("dtend") both succeed
Decodes(comp) == comp.dtstart # BadTime /\ comp.dtend # BadTime

RememberNothing(existing_keys, key) == existing_keys
\* existing_keys.add(key)
Remember(existing_keys, key) == existing_keys \cup {key}

\* the for loop over cal.walk(): the events appended so far, and whether a
\* decode raised (the loop stops there)
RECURSIVE Walk(_, _, _)
Walk(comps, new_events, existing_keys) ==
    IF comps = <<>> THEN [raised |-> FALSE, new_events |-> new_events]
    ELSE LET comp == Head(comps) IN
         IF comp.name # "VEVENT" THEN Walk(Tail(comps), new_events, existing_keys)
         ELSE IF ~Decodes(comp) THEN [raised |-> TRUE, new_events |-> new_events]
         ELSE LET summary == comp.summary
                  dtstart == isoformat(comp.dtstart)
                  dtend == isoformat(comp.dtend)
                  description == strip(comp.description)
                  key == CompositeKey(summary, dtstart)
              IN IF key \in existing_keys
                 THEN Walk(Tail(comps), new_events, existing_keys)
                 ELSE Walk(Tail(comps),
                           Append(new_events,
                                  StoredEvent(comp.uid, summary, description,
                                              dtstart, dtend)),
                           Remember(existing_keys, key))

ExtendReplaces(stored, new_events) == new_events
ExtendInFront(stored, new_events) == new_events \o stored
\* stored.extend(new_events)
Extend(stored, new_events) == stored \o new_events

WriteStoredAlways(raised, stored_before, stored) == File(TRUE, stored)
\* json.dump(stored) is reached only when the loop did not raise
WriteStored(raised, stored_before, stored) ==
    IF raised THEN stored_before ELSE File(TRUE, stored)

\* parse_and_store() on the two files it reads: whether it raised, the
\* stored_events.json it leaves, and the events it added
parse_and_store(stored_before, ics) ==
    IF ~ics.exists
    THEN [raised |-> TRUE, stored_file |-> stored_before, new_events |-> <<>>]
    ELSE LET loaded == IF stored_before.exists THEN stored_before.data ELSE <<>>
             unique == RemoveDuplicates(loaded, <<>>)
             stored == DictValues(unique)
             walked == Walk(ics.data, <<>>, ExistingKeys(unique))
         IN [raised |-> walked.raised,
             stored_file |-> WriteStored(walked.raised, stored_before,
                                         Extend(stored, walked.new_events)),
             new_events |-> IF walked.raised THEN <<>> ELSE walked.new_events]

\* --------------------------------------------------- step 3: generate_ics
\* one VEVENT per stored event, fields mapped verbatim, in stored order
generate_ics(stored) ==
    [i \in DOMAIN stored |->
        <<"VEVENT", stored[i].summary, stored[i].uid, stored[i].description,
          stored[i].dtstart, stored[i].dtend>>]

\* ------------------------------------------- step 5: colour and payload
\* COLOR_MAP.items(), in the order the dict literal gives them
COLOR_MAP == <<
    \* "lecture": "10"
    [kw |-> <<"l", "e", "c", "t", "u", "r", "e">>,
     cid |-> "10"],
    \* "anatomy lab quiz": "7"
    [kw |-> <<"a", "n", "a", "t", "o", "m", "y", " ", "l", "a", "b", " ", "q", "u", "i", "z">>,
     cid |-> "7"],
    \* "Q&A": "8"
    [kw |-> <<"Q", "&", "A">>,
     cid |-> "8"],
    \* "holiday": "8"
    [kw |-> <<"h", "o", "l", "i", "d", "a", "y">>,
     cid |-> "8"],
    \* "lab": "5"
    [kw |-> <<"l", "a", "b">>,
     cid |-> "5"],
    \* "exam": "7"
    [kw |-> <<"e", "x", "a", "m">>,
     cid |-> "7"],
    \* "discussion, large group": "8"
    [kw |-> <<"d", "i", "s", "c", "u", "s", "s", "i", "o", "n", ",", " ", "l", "a", "r", "g", "e", " ", "g", "r", "o", "u", "p">>,
     cid |-> "8"],
    \* "discussion, small group": "4"
    [kw |-> <<"d", "i", "s", "c", "u", "s", "s", "i", "o", "n", ",", " ", "s", "m", "a", "l", "l", " ", "g", "r", "o", "u", "p">>,
     cid |-> "4"],
    \* "anatomy lab": "5"
    [kw |-> <<"a", "n", "a", "t", "o", "m", "y", " ", "l", "a", "b">>,
     cid |-> "5"],
    \* "quiz": "7"
    [kw |-> <<"q", "u", "i", "z">>,
     cid |-> "7"],
    \* "required": "4"
    [kw |-> <<"r", "e", "q", "u", "i", "r", "e", "d">>,
     cid |-> "4"],
    \* "simulation": "8"
    [kw |-> <<"s", "i", "m", "u", "l", "a", "t", "i", "o", "n">>,
     cid |-> "8"],
    \* "optional": "8"
    [kw |-> <<"o", "p", "t", "i", "o", "n", "a", "l">>,
     cid |-> "8"],
    \* "independent learning": "8"
    [kw |-> <<"i", "n", "d", "e", "p", "e", "n", "d", "e", "n", "t", " ", "l", "e", "a", "r", "n", "i", "n", "g">>,
     cid |-> "8"],
    \* "clinical skills practical": "7"
    [kw |-> <<"c", "l", "i", "n", "i", "c", "a", "l", " ", "s", "k", "i", "l", "l", "s", " ", "p", "r", "a", "c", "t", "i", "c", "a", "l">>,
     cid |-> "7"],
    \* "clinical skills practical prep session": "8"
    [kw |-> <<"c", "l", "i", "n", "i", "c", "a", "l", " ", "s", "k", "i", "l", "l", "s", " ", "p", "r", "a", "c", "t", "i", "c", "a", "l", " ", "p", "r", "e", "p", " ", "s", "e", "s", "s", "i", "o", "n">>,
     cid |-> "8"]>>

\* -len(item[0]) of one item is greater than that of another
LongerFirst(a, b) == Len(a.kw) > Len(b.kw)

\* sorted() is stable: an item goes after the items that do not sort after it
RECURSIVE InsertSorted(_, _)
InsertSorted(sorted, item) ==
    IF sorted = <<>> THEN <<item>>
    ELSE IF LongerFirst(item, sorted[Len(sorted)])
         THEN Append(InsertSorted(SubSeq(sorted, 1, Len(sorted) - 1), item),
                     sorted[Len(sorted)])
         ELSE Append(sorted, item)
RECURSIVE Sorted(_)
Sorted(items) ==
    IF items = <<>> THEN <<>>
    ELSE InsertSorted(Sorted(SubSeq(items, 1, Len(items) - 1)), items[Len(items)])

dict_order_keywords == COLOR_MAP
\* sorted(COLOR_MAP.items(), key=lambda item: -len(item[0]))
sorted_keywords == Sorted(COLOR_MAP)

Uppercase == <<"A", "B", "C", "D", "E", "F", "G", "H", "I", "J", "K", "L", "M", "N", "O", "P", "Q", "R", "S", "T", "U", "V", "W", "X", "Y", "Z">>
Lowercase == <<"a", "b", "c", "d", "e", "f", "g", "h", "i", "j", "k", "l", "m", "n", "o", "p", "q", "r", "s", "t", "u", "v", "w", "x", "y", "z">>
\* str.lower()
lower(s) ==
    [i \in DOMAIN s |->
        IF \E u \in DOMAIN Uppercase : Uppercase[u] = s[i]
        THEN Lowercase[CHOOSE u \in DOMAIN Uppercase : Uppercase[u] = s[i]]
        ELSE s[i]]

\* kw in combo
Contains(combo, kw) ==
    \E at \in 0..(Len(combo) - Len(kw)) :
        \A i \in DOMAIN kw : combo[at + i] = kw[i]

\* next((cid for kw, cid in sorted_keywords if kw in combo), None)
RECURSIVE FirstMatch(_, _)
FirstMatch(keywords, combo) ==
    IF keywords = <<>> THEN "None"
    ELSE IF Contains(combo, Head(keywords).kw) THEN Head(keywords).cid
    ELSE FirstMatch(Tail(keywords), combo)

\* combo = (evt["summary"] + " " + evt.get("description", "")).lower()
Combo(evt) == lower(evt.summary \o <<" ">> \o evt.description)

OverrideNever(combo) == FALSE
\* the anatomy-lab-quiz override
Override(combo) ==
    Contains(combo, <<"a", "n", "a", "t", "o", "m", "y", " ", "l", "a", "b">>) /\ Contains(combo, <<"q", "u", "i", "z">>)

\* color_id of an event
ColorId(evt) ==
    IF Override(Combo(evt)) THEN "7" ELSE FirstMatch(sorted_keywords, Combo(evt))

\* the body mirror_and_color builds for an event; colorId only if there is one
Body(evt) ==
    LET description ==
            strip(strip(evt.description) \o <<"\n", "U", "I", "D", ":">> \o evt.uid)
        color_id == ColorId(evt)
        start == [dateTime |-> evt.dtstart, timeZone |-> "UTC"]
        end == [dateTime |-> evt.dtend, timeZone |-> "UTC"]
    IN IF color_id # "None" /\ color_id # ""
       THEN [summary |-> evt.summary, description |-> description,
             start |-> start, end |-> end, colorId |-> color_id]
       ELSE [summary |-> evt.summary, description |-> description,
             start |-> start, end |-> end]

\* ------------------------------------------------------------------- state
\* mirrored.items(): PRIVATE_CALENDAR_ID first, then PUBLIC_CALENDAR_ID
Calendars == <<"private", "public">>
CalendarIds == {Calendars[c] : c \in DOMAIN Calendars}

VARIABLES
    pc,             \* where main() is: fetch, parse, generate, push, mirror,
                    \* loop, done, error; "merge" when parse_and_store is
                    \* called on its own
    http_status,    \* r.status_code of the last fetch (0 before any)
    latest_ics,     \* ilios_latest.ics
    stored_file,    \* stored_events.json
    full_ics,       \* ilios_full.ics
    mirror_file,    \* mirrored_uids_private.json, mirrored_uids_public.json
    events,         \* mirror_and_color: the events it loaded
    mirrored,       \* mirror_and_color: the per-calendar sets of keys
    idx,            \* mirror_and_color: position of evt in events
    cal,            \* mirror_and_color: position of cal_id in mirrored.items()
    added,          \* mirror_and_color: counter
    skipped,        \* mirror_and_color: counter
    body,           \* mirror_and_color: the body built last (<<>> before any)
    \* history, not program state
    loaded,         \* the sets mirror_and_color loaded at the start of this run
    log,            \* this run's (event, calendar) outcomes, in order
    prev_added,     \* <<key, calendar>> pairs inserted by the previous mirroring
    prev_failed,    \* <<key, calendar>> pairs whose insert failed in it
    pushed_before,  \* <<key, calendar>> pairs inserted by any earlier run
    merge_n,        \* calls of parse_and_store on the current feed (0, 1, 2+)
    merge_pre,      \* stored_events.json before the last call
    merge_added     \* the events the last call added

files == <<latest_ics, stored_file, full_ics, mirror_file>>
memory == <<events, mirrored, idx, cal, added, skipped, body>>
run_history == <<loaded, log, prev_added, prev_failed, pushed_before>>
merge_history == <<merge_n, merge_pre, merge_added>>
vars == <<pc, http_status, files, memory, run_history, merge_history>>

NoSets == [c \in CalendarIds |-> {}]

\* a process that has not reached mirror_and_color holds none of its locals
FreshMemory ==
    /\ events = <<>>
    /\ mirrored = NoSets
    /\ idx = 1
    /\ cal = 1
    /\ added = 0
    /\ skipped = 0
    /\ body = <<>>

FreshHistory ==
    /\ loaded = NoSets
    /\ log = <<>>
    /\ prev_added = {}
    /\ prev_failed = {}
    /\ pushed_before = {}
    /\ merge_n = 0
    /\ merge_pre = stored_file
    /\ merge_added = <<>>

\* the event json.dump would have written for a well-formed component
AsStored(comp) ==
    StoredEvent(comp.uid, comp.summary, strip(comp.description),
                isoformat(comp.dtstart), isoformat(comp.dtend))

\* ------------------------------------------------------- runs of main()
\* what the two-calendar pipeline is fed: one summary, two starts, one uid,
\* and an event whose start cannot be decoded
RunSummaries == {<<"a">>}
RunUids == {<<"u", "1">>}
RunComponents ==
    GoodEvents(RunSummaries, Times, RunUids) \cup BadStartEvents(RunSummaries, {0})
RunStored == {AsStored(c) : c \in GoodEvents(RunSummaries, Times, RunUids)}
\* the keys a mirrored_uids_*.json that exists before the first run holds
RunMirrored == {CompositeKey(s, isoformat(0)) : s \in RunSummaries}

Init ==
    /\ pc = "fetch"
    /\ http_status = 0
    /\ latest_ics = File(FALSE, <<>>)
    /\ stored_file \in {File(FALSE, <<>>)}
                       \cup {File(TRUE, s) : s \in SeqsUpTo(RunStored, MaxStored)}
    /\ full_ics = File(FALSE, <<>>)
    /\ mirror_file \in [CalendarIds ->
                          {File(FALSE, {})} \cup {File(TRUE, S) : S \in {RunMirrored}}]
    /\ FreshMemory
    /\ FreshHistory

Statuses == {200, 404}

RaisesNever(status) == FALSE
\* fetch_calendar raises unless r.status_code == 200
FetchRaises(status) == status # 200

\* step 1: fetch_calendar()
FetchCalendar ==
    /\ pc = "fetch"
    /\ \E status \in Statuses :
        /\ http_status' = status
        /\ IF FetchRaises(status)
           THEN /\ pc' = "error"
                /\ UNCHANGED latest_ics
           ELSE /\ pc' = "parse"
                /\ \E content \in SeqsUpTo(RunComponents, MaxFeed) :
                      latest_ics' = File(TRUE, content)
    /\ merge_n' = 0
    /\ merge_pre' = stored_file
    /\ merge_added' = <<>>
    /\ UNCHANGED <<stored_file, full_ics, mirror_file, memory, run_history>>

\* step 2: parse_and_store()
ParseAndStore ==
    /\ pc = "parse"
    /\ LET r == parse_and_store(stored_file, latest_ics) IN
        /\ stored_file' = r.stored_file
        /\ pc' = IF r.raised THEN "error" ELSE "generate"
        /\ merge_n' = 1
        /\ merge_pre' = stored_file
        /\ merge_added' = r.new_events
    /\ UNCHANGED <<http_status, latest_ics, full_ics, mirror_file, memory, run_history>>

\* generate_ics() writing its output to STORED_JSON_PATH
GenerateIcsWrongFile ==
    /\ pc = "generate"
    /\ stored_file' = File(TRUE, generate_ics(stored_file.data))
    /\ pc' = "push"
    /\ UNCHANGED <<http_status, latest_ics, full_ics, mirror_file, memory,
                   run_history, merge_history>>

\* step 3: generate_ics()
GenerateIcs ==
    /\ pc = "generate"
    /\ full_ics' = File(TRUE, generate_ics(stored_file.data))
    /\ pc' = "push"
    /\ UNCHANGED <<http_status, latest_ics, stored_file, mirror_file, memory,
                   run_history, merge_history>>

\* how the three git commands can end: all exit 0, one exits non-zero
\* (CalledProcessError), or git cannot be started (FileNotFoundError)
GitOutcomes == {"ok", "CalledProcessError", "FileNotFoundError"}

\* step 4: push_to_github() catches subprocess.CalledProcessError only
PushToGithub ==
    /\ pc = "push"
    /\ \E git \in GitOutcomes :
          pc' = IF git = "FileNotFoundError" THEN "error" ELSE "mirror"
    /\ UNCHANGED <<http_status, files, memory, run_history, merge_history>>

\* set(json.load(f)) if the file exists, else set()
LoadMirrored(file) == IF file.exists THEN file.data ELSE {}

\* mirror_and_color opening each mirrored_uids_*.json without os.path.exists
MirrorBeginNeedsFiles ==
    /\ pc = "mirror"
    /\ \E authenticated \in BOOLEAN :
        IF authenticated /\ \A c \in CalendarIds : mirror_file[c].exists
        THEN /\ pc' = "loop"
             /\ events' = stored_file.data
             /\ mirrored' = [c \in CalendarIds |-> LoadMirrored(mirror_file[c])]
             /\ loaded' = [c \in CalendarIds |-> LoadMirrored(mirror_file[c])]
             /\ UNCHANGED <<idx, cal, added, skipped, body>>
        ELSE /\ pc' = "error"
             /\ UNCHANGED <<memory, loaded>>
    /\ UNCHANGED <<http_status, files, log, prev_added, prev_failed,
                   pushed_before, merge_history>>

\* mirror_and_color mirroring only the events this run added
MirrorBeginNewOnly ==
    /\ pc = "mirror"
    /\ \E authenticated \in BOOLEAN :
        IF authenticated
        THEN /\ pc' = "loop"
             /\ events' = merge_added
             /\ mirrored' = [c \in CalendarIds |-> LoadMirrored(mirror_file[c])]
             /\ loaded' = [c \in CalendarIds |-> LoadMirrored(mirror_file[c])]
             /\ UNCHANGED <<idx, cal, added, skipped, body>>
        ELSE /\ pc' = "error"
             /\ UNCHANGED <<memory, loaded>>
    /\ UNCHANGED <<http_status, files, log, prev_added, prev_failed,
                   pushed_before, merge_history>>

\* step 5, up to the loop: authenticate, load the events and the sets
MirrorBegin ==
    /\ pc = "mirror"
    /\ \E authenticated \in BOOLEAN :
        IF authenticated
        THEN /\ pc' = "loop"
             /\ events' = stored_file.data
             /\ mirrored' = [c \in CalendarIds |-> LoadMirrored(mirror_file[c])]
             /\ loaded' = [c \in CalendarIds |-> LoadMirrored(mirror_file[c])]
             /\ UNCHANGED <<idx, cal, added, skipped, body>>
        ELSE /\ pc' = "error"
             /\ UNCHANGED <<memory, loaded>>
    /\ UNCHANGED <<http_status, files, log, prev_added, prev_failed,
                   pushed_before, merge_history>>

Outcome(i, key, cal_id, result) ==
    [idx |-> i, key |-> key, cal_id |-> cal_id, result |-> result]

\* the inner for loop moves to the next calendar, then to the next event
Advance ==
    IF cal < Len(Calendars)
    THEN cal' = cal + 1 /\ idx' = idx
    ELSE cal' = 1 /\ idx' = idx + 1

AddAlways(uids, key, ok) == uids \cup {key}
AddNever(uids, key, ok) == uids
\* uids.add(key) runs only when insert(...).execute() returned
AfterInsert(uids, key, ok) == IF ok THEN uids \cup {key} ELSE uids

FailureEscapes(ok) == IF ok THEN "loop" ELSE "error"
\* except Exception: the loop goes on whatever the insert did
AfterAttempt(ok) == "loop"

\* if key in uids: skipped += 1; continue
MirrorSkip ==
    /\ pc = "loop"
    /\ idx <= Len(events)
    /\ LET key == StoredKey(events[idx])
           cal_id == Calendars[cal]
       IN /\ key \in mirrored[cal_id]
          /\ skipped' = skipped + 1
          /\ log' = Append(log, Outcome(idx, key, cal_id, "skipped"))
    /\ body' = <<Body(events[idx])>>
    /\ Advance
    /\ UNCHANGED <<pc, http_status, files, events, mirrored, added, loaded,
                   prev_added, prev_failed, pushed_before, merge_history>>

\* service.events().insert(calendarId=cal_id, body=body).execute()
MirrorInsert(ok) ==
    /\ pc = "loop"
    /\ idx <= Len(events)
    /\ LET key == StoredKey(events[idx])
           cal_id == Calendars[cal]
       IN /\ key \notin mirrored[cal_id]
          /\ mirrored' = [mirrored EXCEPT ![cal_id] = AfterInsert(@, key, ok)]
          /\ added' = IF ok THEN added + 1 ELSE added
          /\ log' = Append(log, Outcome(idx, key, cal_id,
                                        IF ok THEN "added" ELSE "failed"))
    /\ pc' = AfterAttempt(ok)
    /\ body' = <<Body(events[idx])>>
    /\ Advance
    /\ UNCHANGED <<http_status, files, events, skipped, loaded,
                   prev_added, prev_failed, pushed_before, merge_history>>

InsertSucceeds == MirrorInsert(TRUE)
InsertFails == MirrorInsert(FALSE)

\* the loop is over: mirror_and_color returns without writing either set
MirrorEnd ==
    /\ pc = "loop"
    /\ idx > Len(events)
    /\ pc' = "done"
    /\ UNCHANGED <<http_status, files, memory, run_history, merge_history>>

Pairs(result) ==
    {<<log[j].key, log[j].cal_id>> : j \in {i \in DOMAIN log : log[i].result = result}}

\* the process ends; the next run of main() starts with the files as left
NextRun ==
    /\ pc \in {"done", "error"}
    /\ pc' = "fetch"
    /\ events' = <<>>
    /\ mirrored' = NoSets
    /\ idx' = 1
    /\ cal' = 1
    /\ added' = 0
    /\ skipped' = 0
    /\ body' = <<>>
    /\ loaded' = NoSets
    /\ log' = <<>>
    /\ IF pc = "done"
       THEN /\ prev_added' = Pairs("added")
            /\ prev_failed' = Pairs("failed")
            /\ pushed_before' = pushed_before \cup Pairs("added")
       ELSE UNCHANGED <<prev_added, prev_failed, pushed_before>>
    /\ UNCHANGED <<http_status, files, merge_history>>

Next ==
    \/ FetchCalendar
    \/ ParseAndStore
    \/ GenerateIcs
    \/ PushToGithub
    \/ MirrorBegin
    \/ MirrorSkip
    \/ InsertSucceeds
    \/ InsertFails
    \/ MirrorEnd
    \/ NextRun

Spec == Init /\ [][Next]_vars

\* ------------------------------------- parse_and_store called on its own
\* every component a feed may hold: an event per summary and start, a second
\* event (other uid and description) for one of these keys, an event whose
\* start cannot be decoded, one whose end cannot, and a non-event
TwiceSeen == GoodEvents({<<"a">>}, {0}, Uids)
Components ==
    GoodEvents(Summaries, Times, RunUids) \cup TwiceSeen
    \cup BadStartEvents({<<"a">>}, {0}) \cup BadEndEvents({<<"a">>}, {0})
    \cup OtherComponents
AllStored == {AsStored(c) : c \in GoodEvents(Summaries, Times, RunUids) \cup TwiceSeen}

\* any stored_events.json, duplicates of a key included, and any feed
MergeInit ==
    /\ pc = "merge"
    /\ http_status = 200
    /\ latest_ics \in {File(TRUE, content) : content \in SeqsUpTo(Components, MaxFeed)}
    /\ stored_file \in {File(FALSE, <<>>)}
                       \cup {File(TRUE, s) : s \in SeqsUpTo(AllStored, MaxStored)}
    /\ full_ics = File(FALSE, <<>>)
    /\ mirror_file = [c \in CalendarIds |-> File(FALSE, {})]
    /\ FreshMemory
    /\ FreshHistory

\* parse_and_store() on the feed at hand, and once more on the same feed
MergeCall ==
    /\ pc = "merge"
    /\ merge_n < 2
    /\ LET r == parse_and_store(stored_file, latest_ics) IN
        /\ stored_file' = r.stored_file
        /\ merge_added' = r.new_events
    /\ merge_n' = merge_n + 1
    /\ merge_pre' = stored_file
    /\ UNCHANGED <<pc, http_status, latest_ics, full_ics, mirror_file, memory,
                   run_history>>

MergeNext == MergeCall

MergeSpec == MergeInit /\ [][MergeNext]_vars

\* ------------------------------------- mirror_and_color called on its own
\* what the text of an event is made of
Phrases == {
    <<"A", "n", "a", "t", "o", "m", "y", " ", "L", "a", "b">>,
    <<"A", "n", "a", "t", "o", "m", "y">>,
    <<"l", "a", "b">>,
    <<"Q", "u", "i", "z">>,
    <<"c", "l", "i", "n", "i", "c", "a", "l", " ", "s", "k", "i", "l", "l", "s", " ", "p", "r", "a", "c", "t", "i", "c", "a", "l">>,
    <<"c", "l", "i", "n", "i", "c", "a", "l", " ", "s", "k", "i", "l", "l", "s", " ", "p", "r", "a", "c", "t", "i", "c", "a", "l", " ", "p", "r", "e", "p", " ", "s", "e", "s", "s", "i", "o", "n">>,
    <<"Q", "&", "A">>,
    <<"L", "e", "c", "t", "u", "r", "e">>,
    <<"r", "e", "v", "i", "e", "w">>}

\* phrases joined by blanks
RECURSIVE Join(_)
Join(words) ==
    IF words = <<>> THEN <<>>
    ELSE IF Len(words) = 1 THEN words[1]
    ELSE words[1] \o <<" ">> \o Join(Tail(words))

TextSummaries == {Join(w) : w \in SeqsUpTo(Phrases, MaxWords)}
TextDescriptions == {<<>>} \cup Phrases
TextStored ==
    {StoredEvent(<<"u", "1">>, s, d, isoformat(0), isoformat(1)) :
        s \in TextSummaries, d \in TextDescriptions}

\* stored events of two keys, one of them under two uids
MirrorStored == {AsStored(c) : c \in TwiceSeen \cup GoodEvents({<<"a">>}, {1}, RunUids)}

\* mirror_and_color finds either a stored_events.json of few events, a key
\* stored twice included, and any mirrored_uids_*.json, or one event of any
\* text and no mirrored_uids_*.json
MirrorInit ==
    /\ pc = "mirror"
    /\ http_status = 200
    /\ latest_ics = File(TRUE, <<>>)
    /\ full_ics = File(FALSE, <<>>)
    /\ \/ /\ stored_file \in {File(TRUE, s) : s \in SeqsUpTo(MirrorStored, MaxStored)}
          /\ mirror_file \in [CalendarIds ->
                {File(FALSE, {})} \cup {File(TRUE, S) : S \in {RunMirrored}}]
       \/ /\ stored_file \in {File(TRUE, <<e>>) : e \in TextStored}
          /\ mirror_file = [c \in CalendarIds |-> File(FALSE, {})]
    /\ FreshMemory
    /\ FreshHistory

MirrorNext ==
    \/ MirrorBegin
    \/ MirrorSkip
    \/ InsertSucceeds
    \/ InsertFails
    \/ MirrorEnd

MirrorSpec == MirrorInit /\ [][MirrorNext]_vars

\* ------------------------------------------------------------------ claims
\* two stored events are the same event: equal (summary, start)
SameIdentity(e, f) == e.summary = f.summary /\ e.dtstart = f.dtstart
NoDuplicates(stored) ==
    \A i, j \in DOMAIN stored : SameIdentity(stored[i], stored[j]) => i = j

\* the feed holds an event whose start or end cannot be decoded
Undecodable(comp) ==
    comp.name = "VEVENT" /\ (comp.dtstart = BadTime \/ comp.dtend = BadTime)
FeedDecodes(ics) == \A i \in DOMAIN ics.data : ~Undecodable(ics.data[i])

\* a well-formed feed event and a stored event are the same event
Matches(comp, e) ==
    /\ comp.name = "VEVENT"
    /\ ~Undecodable(comp)
    /\ comp.summary = e.summary
    /\ isoformat(comp.dtstart) = e.dtstart

InsertCalled(entry) == entry.result \in {"added", "failed"}
AddedKeys(cal_id) ==
    {log[j].key : j \in {i \in DOMAIN log :
                            log[i].result = "added" /\ log[i].cal_id = cal_id}}

\* C1: no insert call is issued for a (key, calendar) pair that an earlier run
\* inserted successfully, and a pair the previous mirroring added is skipped
\* in this one.
C1_NoInsertOncePushed ==
    \A j \in DOMAIN log :
        /\ InsertCalled(log[j]) => <<log[j].key, log[j].cal_id>> \notin pushed_before
        /\ <<log[j].key, log[j].cal_id>> \in prev_added => log[j].result = "skipped"

\* C2: when a run has completed mirroring, the keys each calendar's file holds
\* (none if the file is absent) are the keys loaded at the start of the run
\* plus the keys inserted successfully during it.
C2_ProgressPersisted ==
    pc = "done" =>
        \A c \in CalendarIds :
            LoadMirrored(mirror_file[c]) = loaded[c] \cup AddedKeys(c)

\* C3 as stated: after an ingestion run, whatever the feed and the store it
\* started from, stored_events.json holds at most one event per (summary, start).
C3_AtMostOnePerKey ==
    merge_n >= 1 => NoDuplicates(stored_file.data)

\* C3 as amended: after an ingestion run over a feed whose events all decode,
\* stored_events.json holds at most one event per (summary, start).
C3_AtMostOnePerKeyOnceMerged ==
    (merge_n >= 1 /\ FeedDecodes(latest_ics)) => NoDuplicates(stored_file.data)

\* a merge of a feed holding one key twice (two uids) into a store that held
\* a key twice
C3_Witness ==
    /\ merge_n = 1
    /\ FeedDecodes(latest_ics)
    /\ ~NoDuplicates(merge_pre.data)
    /\ \E i, j \in DOMAIN latest_ics.data :
          /\ i < j
          /\ latest_ics.data[i].name = "VEVENT"
          /\ latest_ics.data[j].name = "VEVENT"
          /\ latest_ics.data[i].summary = latest_ics.data[j].summary
          /\ latest_ics.data[i].dtstart = latest_ics.data[j].dtstart
          /\ latest_ics.data[i].uid # latest_ics.data[j].uid

\* C4: every event of a duplicate-free store is still stored after a merge,
\* with all its fields, and is the only stored event with its (summary, start).
C4_FirstWriteWins ==
    (merge_n >= 1 /\ NoDuplicates(merge_pre.data)) =>
        \A i \in DOMAIN merge_pre.data :
            /\ \E j \in DOMAIN stored_file.data :
                  stored_file.data[j] = merge_pre.data[i]
            /\ \A j \in DOMAIN stored_file.data :
                  SameIdentity(stored_file.data[j], merge_pre.data[i])
                      => stored_file.data[j] = merge_pre.data[i]

\* a completed merge of a feed that holds a stored event's key under another
\* uid and description
C4_Witness ==
    /\ merge_n = 1
    /\ FeedDecodes(latest_ics)
    /\ NoDuplicates(merge_pre.data)
    /\ \E i \in DOMAIN merge_pre.data, k \in DOMAIN latest_ics.data :
          /\ Matches(latest_ics.data[k], merge_pre.data[i])
          /\ latest_ics.data[k].uid # merge_pre.data[i].uid
          /\ strip(latest_ics.data[k].description) # merge_pre.data[i].description

Last(s) == s[Len(s)]

\* C5: a step of the loop changes a calendar's set only by adding the key whose
\* insert to that calendar just returned; a failed insert changes no set and
\* no file.
C5_AddedOnlyOnSuccess ==
    [][pc = "loop" =>
        /\ \A c \in CalendarIds :
              mirrored'[c] # mirrored[c] =>
                  /\ Len(log') = Len(log) + 1
                  /\ Last(log').result = "added"
                  /\ Last(log').cal_id = c
                  /\ mirrored'[c] = mirrored[c] \cup {Last(log').key}
        /\ (Len(log') = Len(log) + 1 /\ Last(log').result = "failed") =>
              /\ mirrored' = mirrored
              /\ mirror_file' = mirror_file]_vars

\* an insert failed and its key is not in that calendar's set, while an insert
\* succeeded and its key is
C5_Witness ==
    /\ \E j \in DOMAIN log :
          log[j].result = "failed" /\ log[j].key \notin mirrored[log[j].cal_id]
    /\ \E j \in DOMAIN log :
          log[j].result = "added" /\ log[j].key \in mirrored[log[j].cal_id]

\* C6: when a key's insert succeeds on one calendar and fails on the other, the
\* first set holds the key and the second does not; and when that happened in
\* the previous mirroring, this run calls insert for the key on the second
\* calendar only.
C6_RetryOnlyWhereFailed ==
    \A a, b \in CalendarIds :
        /\ \A i, j \in DOMAIN log :
              (/\ log[i].key = log[j].key
               /\ log[i].cal_id = a /\ log[i].result = "added"
               /\ log[j].cal_id = b /\ log[j].result = "failed")
                  => (log[i].key \in mirrored[a] /\ log[i].key \notin mirrored[b])
        /\ \A j \in DOMAIN log :
              (/\ <<log[j].key, a>> \in prev_added
               /\ <<log[j].key, b>> \in prev_failed
               /\ log[j].cal_id = a)
                  => ~InsertCalled(log[j])

\* C7: a second parse_and_store on the same feed adds no event and leaves
\* stored_events.json as the first call left it, order included.
C7_IdempotentMerge ==
    merge_n = 2 => (merge_added = <<>> /\ stored_file = merge_pre)

\* the second call ran on a store the first call had extended
C7_Witness ==
    /\ merge_n = 2
    /\ FeedDecodes(latest_ics)
    /\ Len(stored_file.data) > MaxStored

Processed(i, c) ==
    Cardinality({j \in DOMAIN log : log[j].idx = i /\ Calendars[c] = log[j].cal_id})

\* C8: a run fails only before the loop; in the loop every (event, calendar)
\* pair up to the current one has exactly one outcome and no later pair has
\* any; and when the run is done every pair of every stored event has one.
C8_EveryPairOneOutcome ==
    /\ pc = "error" => log = <<>>
    /\ \A j \in DOMAIN log : log[j].result \in {"added", "skipped", "failed"}
    /\ pc \in {"loop", "done"} =>
          \A i \in DOMAIN events, c \in DOMAIN Calendars :
              Processed(i, c) = IF i < idx \/ (i = idx /\ c < cal) THEN 1 ELSE 0
    /\ pc = "done" => (events = stored_file.data /\ idx = Len(events) + 1)

\* a finished run in which an insert failed and later pairs were processed
C8_Witness ==
    /\ pc = "done"
    /\ Len(events) >= 2
    /\ \E j \in DOMAIN log :
          /\ log[j].result = "failed"
          /\ j < Len(log)
          /\ \E k \in DOMAIN log : k > j /\ log[k].result = "added"

\* C9: a fetch that gets a non-200 status ends the run at once with every file
\* as it was, and the failed run takes no further step.
C9_FetchFailureAborts ==
    [][/\ (pc = "fetch" /\ http_status' # 200) =>
              (pc' = "error" /\ UNCHANGED <<files, memory, log>>)
       /\ (pc = "error" /\ http_status # 200) =>
              (pc' = "fetch" /\ UNCHANGED files)]_vars

\* a failed fetch in a run that found files left by an earlier run
C9_Witness ==
    /\ pc = "error"
    /\ http_status # 200
    /\ latest_ics.exists
    /\ stored_file.exists /\ stored_file.data # <<>>
    /\ full_ics.exists

\* C10: parse_and_store on a feed holding an event that cannot be decoded
\* leaves stored_events.json as it was and ends the run, which takes no
\* further step.
C10_DecodeFailureAborts ==
    [][/\ (pc = "parse" /\ ~FeedDecodes(latest_ics)) =>
              (pc' = "error" /\ stored_file' = stored_file)
       /\ (pc = "error" /\ http_status = 200 /\ merge_n = 1
              /\ ~FeedDecodes(latest_ics)) =>
              (pc' = "fetch" /\ UNCHANGED <<files, memory, log>>)]_vars

\* the run stopped on a feed whose undecodable event came after a new,
\* well-formed one, which is not stored
C10_Witness ==
    /\ pc = "error"
    /\ merge_n = 1
    /\ \E i, j \in DOMAIN latest_ics.data :
          /\ i < j
          /\ Undecodable(latest_ics.data[j])
          /\ latest_ics.data[i].name = "VEVENT"
          /\ ~Undecodable(latest_ics.data[i])
          /\ \A k \in DOMAIN stored_file.data :
                ~Matches(latest_ics.data[i], stored_file.data[k])

\* C11: whatever push_to_github meets, the run goes on to mirror_and_color and
\* stored_events.json and the mirrored sets are as they were.
C11_PushFailureSwallowed ==
    [][pc = "push" =>
          (pc' = "mirror" /\ UNCHANGED <<stored_file, mirror_file, mirrored>>)]_vars

SameKeyIn(stored, e) == {j \in DOMAIN stored : SameIdentity(stored[j], e)}

\* every key stored before the call is stored once after it, under one of the
\* events that held it before
Collapsed(before, after) ==
    \A i \in DOMAIN before :
        /\ Cardinality(SameKeyIn(after, before[i])) = 1
        /\ \A j \in SameKeyIn(after, before[i]) :
              \E k \in SameKeyIn(before, before[i]) : after[j] = before[k]

\* C12 as stated: one parse_and_store, whatever the feed, leaves each key of
\* the store once, under one of the events that held it before.
C12_SelfHealing ==
    merge_n >= 1 => Collapsed(merge_pre.data, stored_file.data)

\* C12 as amended: one parse_and_store over a feed whose events all decode
\* leaves each key of the store once, under one of the events that held it.
C12_SelfHealingOnceMerged ==
    (merge_n >= 1 /\ FeedDecodes(latest_ics))
        => Collapsed(merge_pre.data, stored_file.data)

\* an empty feed was merged into a store that held a key under two uids
C12_Witness ==
    /\ merge_n = 1
    /\ latest_ics.data = <<>>
    /\ \E i, j \in DOMAIN merge_pre.data :
          /\ i # j
          /\ SameIdentity(merge_pre.data[i], merge_pre.data[j])
          /\ merge_pre.data[i].uid # merge_pre.data[j].uid
    /\ NoDuplicates(stored_file.data)

\* the event whose body was built last, its lowercased text, and the rules
\* whose keyword occurs in a text
LastEvent == events[Last(log).idx]
LastText == lower(LastEvent.summary \o <<" ">> \o LastEvent.description)
MatchingRules(text) == {i \in DOMAIN COLOR_MAP : Contains(text, COLOR_MAP[i].kw)}
BothMarkers(text) ==
    /\ Contains(text, <<"a", "n", "a", "t", "o", "m", "y", " ", "l", "a", "b">>)
    /\ Contains(text, <<"q", "u", "i", "z">>)
Longest(rules) == {i \in rules : \A k \in rules : Len(COLOR_MAP[k].kw) <= Len(COLOR_MAP[i].kw)}

\* C13: when the text does not hold both override markers, the body carries
\* the category of a longest keyword occurring in the lowercased text, and no
\* colorId when none occurs.
C13_LongestKeywordWins ==
    (log # <<>> /\ body # <<>>) =>
        LET text == LastText
            rules == MatchingRules(text)
        IN ~BothMarkers(text) =>
              IF rules = {}
              THEN "colorId" \notin DOMAIN body[1]
              ELSE /\ "colorId" \in DOMAIN body[1]
                   /\ \E i \in Longest(rules) : body[1].colorId = COLOR_MAP[i].cid

\* a text in which a shorter keyword of another category occurs as well
C13_Witness ==
    /\ log # <<>> /\ body # <<>>
    /\ "colorId" \in DOMAIN body[1]
    /\ LET text == LastText
           rules == MatchingRules(text)
       IN /\ ~BothMarkers(text)
          /\ \E k \in rules \ Longest(rules) : COLOR_MAP[k].cid # body[1].colorId

\* C14: when the lowercased text holds "anatomy lab" and "quiz", the body
\* carries category "7".
C14_OverrideWins ==
    (log # <<>> /\ body # <<>> /\ BothMarkers(LastText)) =>
        ("colorId" \in DOMAIN body[1] /\ body[1].colorId = "7")

\* both markers and a longer keyword of another category occur
C14_Witness ==
    /\ log # <<>> /\ body # <<>>
    /\ "colorId" \in DOMAIN body[1] /\ body[1].colorId = "7"
    /\ LET text == LastText
       IN /\ BothMarkers(text)
          /\ \E k \in Longest(MatchingRules(text)) : COLOR_MAP[k].cid # "7"

\* C15: with no stored_events.json the merge stores exactly the events of the
\* feed; with a mirrored_uids_*.json missing the run still enters the loop,
\* that calendar starts from the empty set and gets an insert call for every
\* stored event, and the other calendar starts from what its file holds.
C15_MissingFileIsEmpty ==
    /\ (merge_n = 1 /\ ~merge_pre.exists /\ FeedDecodes(latest_ics)) =>
          /\ stored_file.exists
          /\ \A j \in DOMAIN stored_file.data :
                \E k \in DOMAIN latest_ics.data :
                    Matches(latest_ics.data[k], stored_file.data[j])
          /\ \A k \in DOMAIN latest_ics.data :
                latest_ics.data[k].name = "VEVENT" =>
                    \E j \in DOMAIN stored_file.data :
                        Matches(latest_ics.data[k], stored_file.data[j])
    /\ pc = "mirror" => ENABLED (MirrorBegin /\ pc' = "loop")
    /\ pc \in {"loop", "done"} =>
          \A c \in CalendarIds :
              loaded[c] = IF mirror_file[c].exists THEN mirror_file[c].data ELSE {}
    /\ pc = "done" =>
          \A c \in CalendarIds :
              ~mirror_file[c].exists =>
                  \A i \in DOMAIN events :
                      \E j \in DOMAIN log :
                          /\ log[j].idx = i
                          /\ log[j].cal_id = c
                          /\ InsertCalled(log[j])

\* a first run (no stored_events.json) that finished with one calendar's
\* file missing and the other's holding a key it then skipped
C15_Witness ==
    /\ pc = "done"
    /\ ~merge_pre.exists
    /\ events # <<>>
    /\ \E c, d \in CalendarIds :
          /\ ~mirror_file[c].exists
          /\ mirror_file[d].exists
          /\ \E j \in DOMAIN log : log[j].cal_id = d /\ log[j].result = "skipped"
          /\ \E j \in DOMAIN log : log[j].cal_id = c /\ log[j].result = "added"

\* C16: a pair whose key is in the calendar's set when it is processed is
\* skipped without an insert, and no key is inserted twice into a calendar in
\* one run.
C16_SkipsWhatIsMirrored ==
    [][(pc = "loop" /\ idx <= Len(events)) =>
        LET key == events[idx].summary \o <<"|">> \o events[idx].dtstart
            cal_id == Calendars[cal]
        IN /\ Len(log') = Len(log) + 1
           /\ key \in mirrored[cal_id] =>
                 /\ Last(log').result = "skipped"
                 /\ mirrored' = mirrored
                 /\ added' = added
           /\ Last(log').result = "added" =>
                 \A j \in DOMAIN log :
                     ~(/\ log[j].key = key
                       /\ log[j].cal_id = cal_id
                       /\ log[j].result = "added")]_vars

\* two stored events share a key: the first was inserted, the second skipped
C16_Witness ==
    \E i, j \in DOMAIN log :
        /\ log[i].idx < log[j].idx
        /\ log[i].cal_id = log[j].cal_id
        /\ SameIdentity(events[log[i].idx], events[log[j].idx])
        /\ log[i].result = "added"
        /\ log[j].result = "skipped"

\* C17: a run that completes mirroring has called insert for every
\* (key, calendar) pair whose insert failed in the previous mirroring.
C17_FailedIsRetried ==
    pc = "done" =>
        \A p \in prev_failed :
            \E j \in DOMAIN log :
                log[j].key = p[1] /\ log[j].cal_id = p[2] /\ InsertCalled(log[j])

\* of two pairs that failed in the previous mirroring, one failed again and
\* the other was inserted
C17_Witness ==
    /\ pc = "done"
    /\ \E p, q \in prev_failed :
          /\ \E j \in DOMAIN log :
                log[j].key = p[1] /\ log[j].cal_id = p[2] /\ log[j].result = "failed"
          /\ \E j \in DOMAIN log :
                log[j].key = q[1] /\ log[j].cal_id = q[2] /\ log[j].result = "added"

\* position of the first event of a store, or of a feed, with a given identity
FirstStored(stored, e) == CHOOSE i \in SameKeyIn(stored, e) : \A j \in SameKeyIn(stored, e) : i <= j
InFeed(feed, e) == {k \in DOMAIN feed : Matches(feed[k], e)}
FirstInFeed(feed, e) == CHOOSE i \in InFeed(feed, e) : \A j \in InFeed(feed, e) : i <= j
Kept(before, after) == {j \in DOMAIN after : SameKeyIn(before, after[j]) # {}}

\* the events added by the call follow the events kept, and stand in the order
\* in which the feed first shows their keys, each as the feed first shows it
AddedInFeedOrder(before, after, feed) ==
    /\ \A i \in Kept(before, after), j \in DOMAIN after \ Kept(before, after) : i < j
    /\ \A j \in DOMAIN after \ Kept(before, after) :
          /\ InFeed(feed, after[j]) # {}
          /\ after[j] = AsStored(feed[FirstInFeed(feed, after[j])])
    /\ \A i, j \in DOMAIN after \ Kept(before, after) :
          i < j => FirstInFeed(feed, after[i]) < FirstInFeed(feed, after[j])
    /\ \A k \in DOMAIN feed :
          feed[k].name = "VEVENT" => \E j \in DOMAIN after : Matches(feed[k], after[j])

\* C18 as stated: after a merge the store is the events stored before, in the
\* relative order they had, followed by the added events in feed order.
C18_MergeOrder ==
    (merge_n >= 1 /\ FeedDecodes(latest_ics)) =>
        /\ AddedInFeedOrder(merge_pre.data, stored_file.data, latest_ics.data)
        /\ \E at \in [Kept(merge_pre.data, stored_file.data) -> DOMAIN merge_pre.data] :
              /\ \A i \in DOMAIN at : merge_pre.data[at[i]] = stored_file.data[i]
              /\ \A i, j \in DOMAIN at : i < j => at[i] < at[j]

\* C18 as amended: after a merge the store holds one event per key stored
\* before, in the order in which the store first showed these keys, followed
\* by the added events in feed order.
C18_MergeOrderOfKeys ==
    (merge_n >= 1 /\ FeedDecodes(latest_ics)) =>
        /\ AddedInFeedOrder(merge_pre.data, stored_file.data, latest_ics.data)
        /\ Collapsed(merge_pre.data, stored_file.data)
        /\ \A i, j \in Kept(merge_pre.data, stored_file.data) :
              i < j => FirstStored(merge_pre.data, stored_file.data[i])
                           < FirstStored(merge_pre.data, stored_file.data[j])

\* a store held a key twice around another key, and two events were added
C18_Witness ==
    /\ merge_n = 1
    /\ FeedDecodes(latest_ics)
    /\ \E i, j, k \in DOMAIN merge_pre.data :
          /\ i < j /\ j < k
          /\ SameIdentity(merge_pre.data[i], merge_pre.data[k])
          /\ merge_pre.data[i] # merge_pre.data[k]
          /\ ~SameIdentity(merge_pre.data[i], merge_pre.data[j])
    /\ Cardinality(Kept(merge_pre.data, stored_file.data)) = 2
    /\ Len(stored_file.data) = 4

\* C19: when both mirrored_uids_*.json start empty or missing, every key in a
\* calendar's set, in memory or on disk, is the summary|start of a stored
\* event.
C19_MirroredAreStored ==
    (\A c \in CalendarIds : ~mirror_file[c].exists \/ mirror_file[c].data = {}) =>
        \A c \in CalendarIds :
            \A key \in mirrored[c] \cup mirror_file[c].data :
                \E i \in DOMAIN stored_file.data :
                    key = stored_file.data[i].summary \o <<"|">>
                              \o stored_file.data[i].dtstart

\* both calendars' sets hold keys, and the store has grown since
C19_Witness ==
    /\ pc = "done"
    /\ \A c \in CalendarIds : ~mirror_file[c].exists /\ mirrored[c] # {}
    /\ Len(stored_file.data) >= 2
    /\ pushed_before # {}

\* C20: stored_events.json changes only in the parse_and_store step; the
\* generate, push and mirror steps leave it as it is.
C20_OnlyMergeWritesStore ==
    [][/\ stored_file' # stored_file => pc = "parse"
       /\ pc \in {"generate", "push", "mirror", "loop"} =>
              stored_file' = stored_file]_vars

\* a run went through generate, push and a mirroring with a success and a
\* failure, and the store is what the merge left
C20_Witness ==
    /\ pc = "done"
    /\ full_ics.exists
    /\ merge_added # <<>>
    /\ stored_file.data = merge_pre.data \o merge_added
    /\ \E j \in DOMAIN log : log[j].result = "added"
    /\ \E j \in DOMAIN log : log[j].result = "failed"
====
